---- MODULE Spec2Model ----
(***************************************************************************)
(* A model of vobsub-to-srt: the timeline builder (parseTimeline), the     *)
(* text normalizer (cleanOcrText, wrapSubtitleText), the OCR merge         *)
(* (processFrames) and the SRT serializer (formatSrtTimestamp, generate)   *)
(* of src/lib/VobSubDecoder.js, its stages with the external renderer and  *)
(* recognizer (parse, generateFrames, processFrames), and main of the two  *)
(* command lines (src/index.js and the library's CLI).                     *)
(*                                                                         *)
(* A JavaScript string is a sequence of characters.  A character is a TLA+ *)
(* string: an ASCII character stands for itself, a non-ASCII character is  *)
(* written by its code point ("U+00BD" is the one-half glyph).             *)
(***************************************************************************)
EXTENDS Integers, Sequences, FiniteSets, TLC

VARIABLES
    pc,          \* position of the run / of the call under study
    showInfo,    \* the probe lines parseTimeline's loop has consumed so far
    timeline,    \* parseTimeline's local `timeline` (then this.timeline)
    textIndex,   \* parseTimeline's local `textIndex`
    ocrResults,  \* what MacOCR.recognizeBatchFromPath returned (texts)
    srtEntries,  \* what processFrames returned
    srtContent,  \* the string generate hands to fs.writeFile
    arg,         \* argument record of the pure function under study
    ret,         \* its return value
    ret2,        \* the return value of a second application (cleanOcrText)
    metadata,    \* this.metadata
    ffmpegArgs,  \* the size arguments generateFrames gives the renderer
    frames,      \* the frame files generateFrames returned
    tools,       \* how the renderer (twice) and the recognizer ended
    tempDir,     \* main's temporary directory
    exitCode,    \* the exit code of the process, once it has exited
    outputFile   \* whether the output file has been written

vars == <<pc, showInfo, timeline, textIndex, ocrResults, srtEntries,
          srtContent, arg, ret, ret2, metadata, ffmpegArgs, frames, tools,
          tempDir, exitCode, outputFile>>

\* the variables of the decoder's renderer calls and of the command line
runVars == <<metadata, ffmpegArgs, frames, tools, tempDir, exitCode,
             outputFile>>

----------------------------------------------------------------------------
(* Bounds of the model *)

MaxLines == 4      \* probe lines fed to parseTimeline (timeline spec)
MaxSec == 3        \* whole seconds of a probe line's pts_time
MaxSlots == 3      \* probe lines fed to parseTimeline in the OCR spec
MaxFrames == 2     \* frames, hence recognition results, in the OCR spec
MaxHours == 100    \* hours of the timestamps given to formatSrtTimestamp
MaxCleanLen == 4   \* length of the strings given to cleanOcrText
MaxWrapLen == 6    \* length of the strings given to wrapSubtitleText
MaxWidth == 3      \* largest maxLength given to wrapSubtitleText

----------------------------------------------------------------------------
(* JavaScript string built-ins, on sequences of characters *)

Max(a, b) == IF a >= b THEN a ELSE b

\* Array.prototype.join for an array of strings
RECURSIVE Join(_, _)
Join(parts, sep) ==
    IF Len(parts) = 0 THEN <<>>
    ELSE IF Len(parts) = 1 THEN parts[1]
    ELSE parts[1] \o sep \o Join(Tail(parts), sep)

\* String.prototype.split(sep) for a one-character separator: "" gives [""]
RECURSIVE SplitAcc(_, _, _)
SplitAcc(s, sep, cur) ==
    IF Len(s) = 0 THEN <<cur>>
    ELSE IF Head(s) = sep THEN <<cur>> \o SplitAcc(Tail(s), sep, <<>>)
    ELSE SplitAcc(Tail(s), sep, Append(cur, Head(s)))

Split(s, sep) == SplitAcc(s, sep, <<>>)

\* the characters the regular expression class \s and trim() treat as blank
Whitespace == {" ", "\t", "\n", "\r"}

RECURSIVE TrimStart(_)
TrimStart(s) ==
    IF Len(s) > 0 /\ Head(s) \in Whitespace THEN TrimStart(Tail(s)) ELSE s

RECURSIVE TrimEnd(_)
TrimEnd(s) ==
    IF Len(s) > 0 /\ s[Len(s)] \in Whitespace
    THEN TrimEnd(SubSeq(s, 1, Len(s) - 1)) ELSE s

\* String.prototype.trim
Trim(s) == TrimEnd(TrimStart(s))

\* String.prototype.substring(from, to) with 0-based, end-exclusive indices
Substring(s, from, to) ==
    LET a == Max(0, IF from > Len(s) THEN Len(s) ELSE from)
        b == Max(0, IF to > Len(s) THEN Len(s) ELSE to)
    IN  IF a <= b THEN SubSeq(s, a + 1, b) ELSE SubSeq(s, b + 1, a)

DigitChar == <<"0", "1", "2", "3", "4", "5", "6", "7", "8", "9">>

\* Number.prototype.toString for a non-negative integer
RECURSIVE NumberToString(_)
NumberToString(n) ==
    IF n < 10 THEN <<DigitChar[n + 1]>>
    ELSE Append(NumberToString(n \div 10), DigitChar[(n % 10) + 1])

\* String.prototype.padStart(width, "0")
RECURSIVE PadStart(_, _)
PadStart(s, width) ==
    IF Len(s) >= width THEN s ELSE PadStart(<<"0">> \o s, width)

----------------------------------------------------------------------------
(* formatSrtTimestamp *)

PadMsTwo(s) == PadStart(s, 2)

\* milliseconds.toString().padStart(3, "0")
PadMs(s) == PadStart(s, 3)

formatSrtTimestamp(ms) ==
    LET hours == ms \div 3600000
        minutes == (ms % 3600000) \div 60000
        seconds == (ms % 60000) \div 1000
        milliseconds == ms % 1000
    IN  PadStart(NumberToString(hours), 2) \o <<":">>
        \o PadStart(NumberToString(minutes), 2) \o <<":">>
        \o PadStart(NumberToString(seconds), 2) \o <<",">>
        \o PadMs(NumberToString(milliseconds))

----------------------------------------------------------------------------
(* cleanOcrText *)

\* the `replacements` table, in the order Object.entries walks it
replacements == <<
    <<"/", <<"I">>>>,
    <<"\\", <<"I">>>>,
    <<"|", <<"I">>>>,
    <<"~", <<"-">>>>,
    <<"U+00B0", <<"o">>>>,
    <<"U+00A2", <<"c">>>>,
    <<"U+00A3", <<"E">>>>,
    <<"U+00A5", <<"Y">>>>,
    <<"U+00A7", <<"S">>>>,
    <<"U+00A9", <<"O">>>>,
    <<"U+00AE", <<"R">>>>,
    <<"U+00B1", <<"+">>>>,
    <<"U+00B2", <<"2">>>>,
    <<"U+00B3", <<"3">>>>,
    <<"U+00B9", <<"1">>>>,
    <<"U+00BC", <<"1", "/", "4">>>>,
    <<"U+00BD", <<"1", "/", "2">>>>,
    <<"U+00BE", <<"3", "/", "4">>>>,
    <<"U+00C0", <<"A">>>>,
    <<"U+00C1", <<"A">>>>,
    <<"U+00C2", <<"A">>>>,
    <<"U+00C3", <<"A">>>>,
    <<"U+00C4", <<"A">>>>,
    <<"U+00C5", <<"A">>>>,
    <<"U+00C8", <<"E">>>>,
    <<"U+00C9", <<"E">>>>,
    <<"U+00CA", <<"E">>>>,
    <<"U+00CB", <<"E">>>>,
    <<"U+00CC", <<"I">>>>,
    <<"U+00CD", <<"I">>>>,
    <<"U+00CE", <<"I">>>>,
    <<"U+00CF", <<"I">>>>,
    <<"U+00D2", <<"O">>>>,
    <<"U+00D3", <<"O">>>>,
    <<"U+00D4", <<"O">>>>,
    <<"U+00D5", <<"O">>>>,
    <<"U+00D6", <<"O">>>>,
    <<"U+00D9", <<"U">>>>,
    <<"U+00DA", <<"U">>>>,
    <<"U+00DB", <<"U">>>>,
    <<"U+00DC", <<"U">>>> >>

\* the concatenation of parts[lo..hi]
RECURSIVE Concat(_, _, _)
Concat(parts, lo, hi) ==
    IF lo > hi THEN <<>>
    ELSE IF lo = hi THEN parts[lo]
    ELSE LET mid == (lo + hi) \div 2
         IN  Concat(parts, lo, mid) \o Concat(parts, mid + 1, hi)

\* String.prototype.replace(new RegExp(escapedBad, "g"), good): every
\* occurrence of the one character `bad` becomes the string `good`
ReplaceAll(s, bad, good) ==
    Concat([i \in 1..Len(s) |-> IF s[i] = bad THEN good ELSE <<s[i]>>],
           1, Len(s))

\* the for-loop over the table: rows 1..n applied in order
RECURSIVE ApplyReplacements(_, _)
ApplyReplacements(s, n) ==
    IF n = 0 THEN s
    ELSE LET row == replacements[n]
             cleanedText == ApplyReplacements(s, n - 1)
         IN  IF cleanedText = <<>> THEN <<>>
             ELSE ReplaceAll(cleanedText, row[1], row[2])

\* the class \w: ASCII letters, digits and the underscore
WordChars ==
    {"A", "B", "C", "D", "E", "F", "G", "H", "I", "J", "K", "L", "M",
     "N", "O", "P", "Q", "R", "S", "T", "U", "V", "W", "X", "Y", "Z",
     "a", "b", "c", "d", "e", "f", "g", "h", "i", "j", "k", "l", "m",
     "n", "o", "p", "q", "r", "s", "t", "u", "v", "w", "x", "y", "z",
     "0", "1", "2", "3", "4", "5", "6", "7", "8", "9", "_"}

\* the punctuation the character class of the strip keeps
KeptPunctuation == {".", ",", "!", "?", ";", ":", "(", ")", "-", "\"", "'"}

StripDisallowedMut(s) == s

\* .replace(/[^\w\s.,!?;:()\-"']/g, "")
StripDisallowed(s) ==
    SelectSeq(s, LAMBDA c : c \in WordChars \cup Whitespace \cup KeptPunctuation)

CollapseWhitespaceKeeps(s) == s

\* .replace(/\s+/g, " ")
RECURSIVE CollapseWhitespace(_)
CollapseWhitespace(s) ==
    IF Len(s) = 0 THEN <<>>
    ELSE IF Head(s) \in Whitespace
         THEN <<" ">> \o CollapseWhitespace(TrimStart(s))
         ELSE <<Head(s)>> \o CollapseWhitespace(Tail(s))

\* the value null, where a string is expected
Null == <<"<null>">>

\* `!text`: null and the empty string
Falsy(text) == text \in {Null, <<>>}

cleanOcrText(text) ==
    IF Falsy(text) THEN text
    ELSE Trim(CollapseWhitespace(StripDisallowed(
             ApplyReplacements(text, Len(replacements)))))

----------------------------------------------------------------------------
(* wrapSubtitleText *)

WrapWordDropsSpace(st, word, maxLength) ==
    IF Len(st.currentLine) + Len(word) + 1 > maxLength
    THEN IF Len(st.currentLine) > 0
         THEN [lines |-> Append(st.lines, Trim(st.currentLine)),
               currentLine |-> word]
         ELSE IF Len(word) > maxLength
              THEN [lines |-> Append(st.lines,
                                Substring(word, 0, maxLength - 1) \o <<"-">>),
                    currentLine |-> Substring(word, maxLength - 1, Len(word))]
              ELSE [lines |-> st.lines, currentLine |-> word]
    ELSE [lines |-> st.lines, currentLine |-> st.currentLine \o word]

\* the body of `for (const word of words)`; st = [lines, currentLine]
WrapWord(st, word, maxLength) ==
    IF Len(st.currentLine) + Len(word) + 1 > maxLength
    THEN IF Len(st.currentLine) > 0
         THEN [lines |-> Append(st.lines, Trim(st.currentLine)),
               currentLine |-> word]
         ELSE IF Len(word) > maxLength
              THEN [lines |-> Append(st.lines,
                                Substring(word, 0, maxLength - 1) \o <<"-">>),
                    currentLine |-> Substring(word, maxLength - 1, Len(word))]
              ELSE [lines |-> st.lines, currentLine |-> word]
    ELSE IF Len(st.currentLine) > 0
         THEN [lines |-> st.lines,
               currentLine |-> st.currentLine \o <<" ">> \o word]
         ELSE [lines |-> st.lines, currentLine |-> word]

RECURSIVE WrapWords(_, _, _)
WrapWords(st, words, maxLength) ==
    IF Len(words) = 0 THEN st
    ELSE WrapWords(WrapWord(st, Head(words), maxLength), Tail(words), maxLength)

\* the `lines` array after the loop and the push of the last line
WrapLines(text, maxLength) ==
    LET st == WrapWords([lines |-> <<>>, currentLine |-> <<>>],
                        Split(text, " "), maxLength)
    IN  IF Len(st.currentLine) > 0
        THEN Append(st.lines, Trim(st.currentLine))
        ELSE st.lines

\* what a call that recurses without end comes to: V8 throws
\* RangeError (maximum call stack size exceeded) out of wrapSubtitleText
RangeError == <<"<RangeError>">>

FirstLineMut(s) == s

\* .split("\n")[0]
FirstLine(s) == Split(s, "\n")[1]

\* `seen` holds the arguments of the calls now on the stack: the function is
\* pure, so a call whose argument is already on the stack never returns
RECURSIVE WrapCall(_, _, _)
WrapCall(text, maxLength, seen) ==
    IF text = <<>> \/ Len(text) <= maxLength THEN text
    ELSE LET lines == WrapLines(text, maxLength)
         IN  IF Len(lines) > 2
             THEN LET firstLine == lines[1]
                      remainingText == Join(Tail(lines), <<" ">>)
                  IN  IF remainingText \in seen \cup {text} THEN RangeError
                      ELSE LET rest == WrapCall(remainingText, maxLength,
                                                seen \cup {text})
                           IN  IF rest = RangeError THEN RangeError
                               ELSE firstLine \o <<"\n">> \o FirstLine(rest)
             ELSE Join(lines, <<"\n">>)

wrapSubtitleText(text, maxLength) == WrapCall(text, maxLength, {})

\* the default value of wrapSubtitleText's maxLength parameter
DefaultMaxLength == 42

----------------------------------------------------------------------------
(* parseTimeline *)

\* endTime: startTime + 3000
DefaultDuration == 3000

\* the checksum showinfo reports for a frame with no subtitle on it
BlankChecksum == "00000000"

\* A probe line is [match, pts, checksum]: whether the regular expression
\* matches it and, when it does, its pts_time (kept in microseconds, the
\* source has a decimal fraction of a second) and its checksum.
NoMatchLine == [match |-> FALSE, pts |-> 0, checksum |-> ""]

\* Math.round(parseFloat(match[1]) * 1000)
PtsToMs(pts) == (pts + 500) \div 1000

OpenEntrySwapped(index, startTime) ==
    [index |-> index, startTime |-> startTime + DefaultDuration,
     endTime |-> startTime]

OpenEntryOneBased(index, startTime) ==
    [index |-> index + 1, startTime |-> startTime,
     endTime |-> startTime + DefaultDuration]

\* the object pushed for a start signal
OpenEntry(index, startTime) ==
    [index |-> index, startTime |-> startTime,
     endTime |-> startTime + DefaultDuration]

ClosedPositionMut(ti) == 1

\* timeline[textIndex - 1], as a position of the 1-based sequence
ClosedPosition(ti) == ti

TimelineStepFirstBlank(st, line) ==
    IF line.match
    THEN LET startTime == PtsToMs(line.pts)
             last == IF Len(st.timeline) > 0 THEN st.timeline[st.textIndex]
                     ELSE OpenEntry(0, 0)
         IN  IF line.checksum # BlankChecksum
             THEN [timeline |-> Append(st.timeline,
                                       OpenEntry(st.textIndex, startTime)),
                   textIndex |-> st.textIndex + 1]
             ELSE IF Len(st.timeline) > 0
                     /\ last.endTime = last.startTime + DefaultDuration
                  THEN [timeline |->
                            [st.timeline EXCEPT
                                ![ClosedPosition(st.textIndex)].endTime = startTime],
                        textIndex |-> st.textIndex]
                  ELSE st
    ELSE st

\* the body of `for (const line of lines)`; st = [timeline, textIndex]
TimelineStep(st, line) ==
    IF line.match
    THEN LET startTime == PtsToMs(line.pts)
             checksum == line.checksum
         IN  IF checksum # BlankChecksum
             THEN [timeline |-> Append(st.timeline,
                                       OpenEntry(st.textIndex, startTime)),
                   textIndex |-> st.textIndex + 1]
             ELSE IF Len(st.timeline) > 0
                  THEN [timeline |->
                            [st.timeline EXCEPT
                                ![ClosedPosition(st.textIndex)].endTime = startTime],
                        textIndex |-> st.textIndex]
                  ELSE st
    ELSE st

\* the probe lines the model feeds: pts_time is a whole number of seconds,
\* or 0.0005 s (which rounds up to 1 ms)
Checksums == {BlankChecksum, "A1B2C3D4"}

PtsValues == {sec * 1000000 : sec \in 0..MaxSec} \cup {500}

ProbeLines ==
    {NoMatchLine} \cup
    {[match |-> TRUE, pts |-> p, checksum |-> c] : p \in PtsValues, c \in Checksums}

\* one iteration of parseTimeline's loop, on a line drawn from `from`
ParseLine(from, maxLines) ==
    /\ pc = "parseTimeline"
    /\ Len(showInfo) < maxLines
    /\ \E line \in from :
          LET st == TimelineStep([timeline |-> timeline, textIndex |-> textIndex],
                                 line)
          IN  /\ showInfo' = Append(showInfo, line)
              /\ timeline' = st.timeline
              /\ textIndex' = st.textIndex
    /\ UNCHANGED <<pc, ocrResults, srtEntries, srtContent, arg, ret, ret2>>
    /\ UNCHANGED runVars

ParseTimelineLine == ParseLine(ProbeLines, MaxLines)

NoArg == [fn |-> "none"]

\* JavaScript values of this.metadata's fields
Undefined == [type |-> "undefined", value |-> 0]
Num(n) == [type |-> "number", value |-> n]

\* `this.metadata = {}`: reading width or height gives undefined
NoMetadata == [width |-> Undefined, height |-> Undefined]

NoFfmpegArgs == [size |-> <<>>, scale |-> <<>>]

NoTools == [probe |-> "not run", render |-> "not run", ocr |-> "not run"]

\* no renderer call made, no command line run
NoRun ==
    /\ metadata = NoMetadata
    /\ ffmpegArgs = NoFfmpegArgs
    /\ frames = <<>>
    /\ tools = NoTools
    /\ tempDir = "undefined"
    /\ exitCode = "running"
    /\ outputFile = "absent"

InitTimeline ==
    /\ pc = "parseTimeline"
    /\ showInfo = <<>>
    /\ timeline = <<>>
    /\ textIndex = 0
    /\ ocrResults = <<>>
    /\ srtEntries = <<>>
    /\ srtContent = <<>>
    /\ arg = NoArg
    /\ ret = <<>>
    /\ ret2 = <<>>
    /\ NoRun

NextTimeline == ParseTimelineLine

SpecTimeline == InitTimeline /\ [][NextTimeline]_vars

----------------------------------------------------------------------------
(* processFrames and generate *)

\* const cleanedTexts = ocrResults.map(...).filter((text) => text.length > 0)
CleanedTexts(results) ==
    SelectSeq([i \in 1..Len(results) |->
                  wrapSubtitleText(Trim(cleanOcrText(results[i])),
                                   DefaultMaxLength)],
              LAMBDA text : Len(text) > 0)

\* timeline.map((entry, i) => ...).filter((entry) => entry !== null),
\* from the (1-based) position i on
RECURSIVE MergeEntries(_, _, _)
MergeEntries(tl, cleanedTexts, i) ==
    IF i > Len(tl) THEN <<>>
    ELSE LET text == IF i <= Len(cleanedTexts) THEN cleanedTexts[i] ELSE <<>>
         IN  (IF text = <<>> THEN <<>>
              ELSE <<[index |-> tl[i].index, startTime |-> tl[i].startTime,
                      endTime |-> tl[i].endTime, text |-> text]>>)
             \o MergeEntries(tl, cleanedTexts, i + 1)

\* the entries processFrames returns for a timeline and the recognizer's texts
processFrames(tl, results) == MergeEntries(tl, CleanedTexts(results), 1)

Arrow == <<" ", "-", "-", ">", " ">>

SrtRecordNoBlank(entry) ==
    Join(<<NumberToString(entry.index),
           formatSrtTimestamp(entry.startTime) \o Arrow
               \o formatSrtTimestamp(entry.endTime),
           entry.text>>, <<"\n">>)

\* [entry.index, `${start} --> ${end}`, entry.text, ""].join("\n")
SrtRecord(entry) ==
    Join(<<NumberToString(entry.index),
           formatSrtTimestamp(entry.startTime) \o Arrow
               \o formatSrtTimestamp(entry.endTime),
           entry.text,
           <<>>>>, <<"\n">>)

\* the srtContent generate writes
generate(entries) ==
    Join([i \in 1..Len(entries) |-> SrtRecord(entries[i])], <<"\n">>)

\* a recognized text of 49 characters: five words of nine letters
LongWord == [i \in 1..9 |-> "a"]
LongText == Join(<<LongWord, LongWord, LongWord, LongWord, LongWord>>, <<" ">>)

\* what the recognizer may return for a frame: nothing, one character, a
\* short text, a garbled glyph, a text that needs wrapping
RawTexts == {<<>>, <<"I">>, <<"H", "i">>, <<"#">>, LongText}

\* the recognizer returns one result per frame, and there is a frame
ResultLists == UNION {[1..n -> RawTexts] : n \in 1..MaxFrames}

\* the probe lines of the OCR runs: starts and blank frames at 0 s and 1 s
SlotLines ==
    {[match |-> TRUE, pts |-> p, checksum |-> c] :
        p \in {0, 1000000}, c \in Checksums}

ParseSlotLine == ParseLine(SlotLines, MaxSlots)

\* processFrames on this.timeline, once parse has returned; an exception
\* thrown while the texts are normalized is caught and thrown again (the
\* catch block), and no entries are returned
ProcessFrames ==
    /\ pc = "parseTimeline"
    /\ \E results \in ResultLists :
          LET threw == \E i \in 1..Len(results) :
                          wrapSubtitleText(Trim(cleanOcrText(results[i])),
                                           DefaultMaxLength) = RangeError
          IN  /\ ocrResults' = results
              /\ srtEntries' = IF threw THEN <<>>
                               ELSE processFrames(timeline, results)
              /\ pc' = IF threw THEN "failed" ELSE "processed"
    /\ UNCHANGED <<showInfo, timeline, textIndex, srtContent, arg, ret, ret2>>
    /\ UNCHANGED runVars

\* generate on the entries processFrames returned (the caller stops before
\* it when there are none)
Generate ==
    /\ pc = "processed"
    /\ Len(srtEntries) > 0
    /\ srtContent' = generate(srtEntries)
    /\ pc' = "generated"
    /\ UNCHANGED <<showInfo, timeline, textIndex, ocrResults, srtEntries,
                   arg, ret, ret2>>
    /\ UNCHANGED runVars

NextOcr == ParseSlotLine \/ ProcessFrames \/ Generate

SpecOcr == InitTimeline /\ [][NextOcr]_vars

----------------------------------------------------------------------------
(* What the probe log says, read off showInfo alone *)

IsStartLine(l) == l.match /\ l.checksum # "00000000"
IsBlankLine(l) == l.match /\ l.checksum = "00000000"

StartPositions(log) == {p \in 1..Len(log) : IsStartLine(log[p])}
NumStarts(log) == Cardinality(StartPositions(log))

\* the position in the log of its k-th start signal, 1 <= k <= NumStarts(log)
NthStart(log, k) ==
    CHOOSE p \in StartPositions(log) :
        Cardinality({q \in StartPositions(log) : q <= p}) = k

\* the blank-frame lines after the k-th start and before the next start
BlanksOf(log, k) ==
    LET from == NthStart(log, k)
        to == IF k < NumStarts(log) THEN NthStart(log, k + 1) ELSE Len(log) + 1
    IN  {p \in (from + 1)..(to - 1) : IsBlankLine(log[p])}

ClosingObserved(log, k) == BlanksOf(log, k) # {}

LastBlankOf(log, k) == CHOOSE p \in BlanksOf(log, k) : \A q \in BlanksOf(log, k) : q <= p

\* the millisecond timestamp of a matching line
MsOf(l) == PtsToMs(l.pts)

\* the millisecond timestamps of the matching lines never decrease
NonDecreasing(log) ==
    \A p, q \in 1..Len(log) :
        (p < q /\ log[p].match /\ log[q].match) => MsOf(log[p]) <= MsOf(log[q])

\* the matching lines are start, blank, start, blank, ...
Alternating(log) ==
    LET sig == SelectSeq(log, LAMBDA l : l.match)
    IN  \A j \in 1..Len(sig) : IsStartLine(sig[j]) <=> (j % 2 = 1)

\* the entries the log accounts for (all of them, see C7_TimelineIsStarts)
Known(log, tl) == 1..(IF Len(tl) <= NumStarts(log) THEN Len(tl) ELSE NumStarts(log))

----------------------------------------------------------------------------
(* Claims about parseTimeline, under SpecTimeline *)

C6_UnclosedDefault ==
    \A k \in 1..Len(timeline) :
        k <= NumStarts(showInfo) =>
            IF ClosingObserved(showInfo, k)
            THEN timeline[k].endTime = MsOf(showInfo[LastBlankOf(showInfo, k)])
            ELSE timeline[k].endTime = timeline[k].startTime + 3000

\* C6 witness: the first entry was never closed, the second was, and the
\* blank frame left the first one alone.
C6_Witness ==
    /\ Len(timeline) = 2
    /\ ~ClosingObserved(showInfo, 1)
    /\ ClosingObserved(showInfo, 2)
    /\ timeline[1].endTime = timeline[1].startTime + 3000
    /\ timeline[2].endTime # timeline[2].startTime + 3000

\* C7: the timeline has one entry per start signal, in log order; the entry
\* at (0-based) position k has index k and the k-th start's timestamp.
C7_TimelineIsStarts ==
    /\ Len(timeline) = NumStarts(showInfo)
    /\ textIndex = Len(timeline)
    /\ \A k \in Known(showInfo, timeline) :
          /\ timeline[k].index = k - 1
          /\ timeline[k].startTime = MsOf(showInfo[NthStart(showInfo, k)])

\* C7 witness: a blank frame came first, then two start signals in a row.
C7_Witness ==
    /\ Len(showInfo) = 3
    /\ IsBlankLine(showInfo[1])
    /\ IsStartLine(showInfo[2]) /\ IsStartLine(showInfo[3])
    /\ Len(timeline) = 2

FirstBlankOf(log, k) ==
    CHOOSE p \in BlanksOf(log, k) : \A q \in BlanksOf(log, k) : p <= q

----------------------------------------------------------------------------
(* The pure functions, each applied to inputs drawn from a bounded set *)

\* the strings of at most n characters over an alphabet
Strings(alphabet, n) == UNION {[1..k -> alphabet] : k \in 0..n}

Idle ==
    /\ showInfo = <<>>
    /\ timeline = <<>>
    /\ textIndex = 0
    /\ ocrResults = <<>>
    /\ srtEntries = <<>>
    /\ srtContent = <<>>
    /\ NoRun

UnchangedRun == UNCHANGED <<showInfo, timeline, textIndex, ocrResults,
                            srtEntries, srtContent, metadata, ffmpegArgs,
                            frames, tools, tempDir, exitCode, outputFile>>

\* millisecond values: every hour up to MaxHours, with minutes, seconds and
\* milliseconds at the ends and inside their ranges
MsInputs ==
    {h * 3600000 + m * 60000 + sec * 1000 + f :
        h \in 0..MaxHours, m \in {0, 7, 59}, sec \in {0, 7, 59},
        f \in {0, 7, 99, 999}}

InitFormat ==
    /\ Idle
    /\ pc = "formatSrtTimestamp"
    /\ arg \in {[ms |-> t] : t \in MsInputs}
    /\ ret = <<>>
    /\ ret2 = <<>>

FormatSrtTimestamp ==
    /\ pc = "formatSrtTimestamp"
    /\ ret' = formatSrtTimestamp(arg.ms)
    /\ pc' = "formatted"
    /\ UNCHANGED <<arg, ret2>>
    /\ UnchangedRun

NextFormat == FormatSrtTimestamp

SpecFormat == InitFormat /\ [][NextFormat]_vars

\* the characters of the strings given to cleanOcrText: a letter, a space, a
\* line break, a table key, the one-half and plus-minus glyphs, a stray symbol
CleanAlphabet == {"a", " ", "\n", "/", "U+00BD", "U+00B1", "#"}

InitClean ==
    /\ Idle
    /\ pc = "cleanOcrText"
    /\ arg \in {[text |-> s] :
                   s \in Strings(CleanAlphabet, MaxCleanLen) \cup {Null}}
    /\ ret = <<>>
    /\ ret2 = <<>>

CleanOcrText ==
    /\ pc = "cleanOcrText"
    /\ ret' = cleanOcrText(arg.text)
    /\ pc' = "cleaned"
    /\ UNCHANGED <<arg, ret2>>
    /\ UnchangedRun

\* cleanOcrText applied to its own result
CleanOcrTextAgain ==
    /\ pc = "cleaned"
    /\ ret2' = cleanOcrText(ret)
    /\ pc' = "recleaned"
    /\ UNCHANGED <<arg, ret>>
    /\ UnchangedRun

NextClean == CleanOcrText \/ CleanOcrTextAgain

SpecClean == InitClean /\ [][NextClean]_vars

\* the characters of the strings given to wrapSubtitleText
WrapAlphabet == {"a", " ", "\n"}

InitWrap ==
    /\ Idle
    /\ pc = "wrapSubtitleText"
    /\ arg \in {[text |-> s, maxLength |-> w] :
                   s \in Strings(WrapAlphabet, MaxWrapLen), w \in 1..MaxWidth}
    /\ ret = <<>>
    /\ ret2 = <<>>

WrapSubtitleText ==
    /\ pc = "wrapSubtitleText"
    /\ ret' = wrapSubtitleText(arg.text, arg.maxLength)
    /\ pc' = IF ret' = RangeError THEN "threw" ELSE "wrapped"
    /\ UNCHANGED <<arg, ret2>>
    /\ UnchangedRun

NextWrap == WrapSubtitleText

SpecWrap == InitWrap /\ [][NextWrap]_vars

----------------------------------------------------------------------------
(* Claims about the pure functions *)

DigitValue(c) == CHOOSE d \in 0..9 : DigitChar[d + 1] = c

IsDigits(s) == \A i \in 1..Len(s) : \E d \in 0..9 : DigitChar[d + 1] = s[i]

RECURSIVE ParseDigits(_)
ParseDigits(s) ==
    IF Len(s) = 0 THEN 0
    ELSE 10 * ParseDigits(SubSeq(s, 1, Len(s) - 1)) + DigitValue(s[Len(s)])

\* C8: formatSrtTimestamp(t) is H..H:MM:SS,mmm with at least two hour
\* digits (more only from 100 hours on), two minute digits < 60, two second
\* digits < 60 and three millisecond digits, and reading it back as
\* hours*3600000 + minutes*60000 + seconds*1000 + mmm gives t.  (SpecFormat)
C8_TimestampRoundTrip ==
    pc = "formatted" =>
        LET byColon == Split(ret, ":")
            tail == IF Len(byColon) = 3 THEN Split(byColon[3], ",") ELSE <<>>
        IN  /\ Len(byColon) = 3
            /\ Len(tail) = 2
            /\ \A part \in {byColon[1], byColon[2], tail[1], tail[2]} :
                  IsDigits(part)
            /\ Len(byColon[1]) >= 2
            /\ Len(byColon[1]) > 2 => arg.ms >= 100 * 3600000
            /\ Len(byColon[2]) = 2 /\ ParseDigits(byColon[2]) < 60
            /\ Len(tail[1]) = 2 /\ ParseDigits(tail[1]) < 60
            /\ Len(tail[2]) = 3
            /\ ParseDigits(byColon[1]) * 3600000 + ParseDigits(byColon[2]) * 60000
                   + ParseDigits(tail[1]) * 1000 + ParseDigits(tail[2]) = arg.ms

\* C8 witness: a value of 100 hours or more whose minutes, seconds and
\* milliseconds all need zero padding has been formatted.
C8_Witness ==
    /\ pc = "formatted"
    /\ arg.ms = 100 * 3600000 + 7 * 60000 + 7 * 1000 + 7
    /\ Len(ret) = 13

\* C9: cleanOcrText(cleanOcrText(s)) = cleanOcrText(s).  (SpecClean)
C9_CleanIdempotent == pc = "recleaned" => ret2 = ret

\* C9 witness: a string with the one-half glyph, whose replacement holds the
\* table key "/", has been cleaned twice and the cleaning changed it.
C9_Witness ==
    /\ pc = "recleaned"
    /\ \E i \in 1..Len(arg.text) : arg.text[i] = "U+00BD"
    /\ ret # arg.text
    /\ ret # <<>>

HasNewline(s) == \E i \in 1..Len(s) : s[i] = "\n"

\* C10: for an input with no newline and maxLength >= 1, whenever
\* wrapSubtitleText returns, its result has at most 2 lines.  (SpecWrap)
C10_AtMostTwoLines ==
    (pc = "wrapped" /\ ~HasNewline(arg.text)) => Len(Split(ret, "\n")) <= 2

\* C10 witness: greedy packing gave more than two lines and the call
\* returned two.
C10_Witness ==
    /\ pc = "wrapped"
    /\ ~HasNewline(arg.text)
    /\ Len(WrapLines(arg.text, arg.maxLength)) > 2
    /\ Len(Split(ret, "\n")) = 2

\* the lines of a wrapped text
LinesOf(s) == Split(s, "\n")

\* a line made by the forced break of a long word: it ends with the hyphen
IsForcedBreak(line) == Len(line) > 0 /\ line[Len(line)] = "-"

\* C11: for an input with no newline, no line of the wrapped text is longer
\* than maxLength, a line that ends with the hyphen of a forced break being
\* the only exception: a word longer than maxLength is hard-broken wherever
\* it occurs, and the remainder of a broken word obeys the bound too.
\* (SpecWrap)
C11_LinesWithinWidth ==
    (pc = "wrapped" /\ ~HasNewline(arg.text)) =>
        \A i \in 1..Len(LinesOf(ret)) :
            \/ Len(LinesOf(ret)[i]) <= arg.maxLength
            \/ IsForcedBreak(LinesOf(ret)[i])

\* the text wrapSubtitleText hands to its recursive call
RemainingText(text, maxLength) ==
    Join(Tail(WrapLines(text, maxLength)), <<" ">>)

\* C19: wrapSubtitleText returns for every input and every maxLength >= 1
\* (maxLength = 1 and a first word longer than maxLength included): its
\* recursion never repeats, because the text handed to the recursive call is
\* strictly shorter than the text it was made from.  (SpecWrap)
C19_WrapTerminates ==
    /\ pc # "threw"
    /\ (pc # "wrapSubtitleText" /\ Len(arg.text) > arg.maxLength
           /\ Len(WrapLines(arg.text, arg.maxLength)) > 2)
        => Len(RemainingText(arg.text, arg.maxLength)) < Len(arg.text)

----------------------------------------------------------------------------
(* The frame files of generateFrames: their names and their sorted listing *)

\* the characters of the file names, in increasing order of their UTF-16
\* code units ("." 46, digits 48..57, "_" 95, letters 97..122)
CodeUnitOrder ==
    <<".", "0", "1", "2", "3", "4", "5", "6", "7", "8", "9", "_",
      "a", "b", "c", "d", "e", "f", "g", "h", "i", "j", "k", "l", "m",
      "n", "o", "p", "q", "r", "s", "t", "u", "v", "w", "x", "y", "z">>

CodeUnit(c) == CHOOSE k \in 1..Len(CodeUnitOrder) : CodeUnitOrder[k] = c

\* a < b for strings, as the default comparison of Array.prototype.sort
\* orders them: by code units, a proper prefix first
RECURSIVE StringLess(_, _)
StringLess(a, b) ==
    IF b = <<>> THEN FALSE
    ELSE IF a = <<>> THEN TRUE
    ELSE IF Head(a) = Head(b) THEN StringLess(Tail(a), Tail(b))
    ELSE CodeUnit(Head(a)) < CodeUnit(Head(b))

\* name put in its place in a sorted sequence of names
RECURSIVE InsertSorted(_, _)
InsertSorted(name, sorted) ==
    IF sorted = <<>> THEN <<name>>
    ELSE IF StringLess(name, Head(sorted)) THEN <<name>> \o sorted
    ELSE <<Head(sorted)>> \o InsertSorted(name, Tail(sorted))

\* Array.prototype.sort() of a sequence of names
RECURSIVE Sort(_)
Sort(names) ==
    IF names = <<>> THEN <<>>
    ELSE InsertSorted(Head(names), Sort(Tail(names)))

PadFour(s) == PadStart(s, 4)

\* "subtitle_frame_%04d.png" for frame number n: at least four digits
FrameName(n) ==
    <<"s", "u", "b", "t", "i", "t", "l", "e", "_", "f", "r", "a", "m", "e", "_">>
    \o PadFour(NumberToString(n))
    \o <<".", "p", "n", "g">>

\* file.endsWith(".png")
EndsWithPng(name) ==
    /\ Len(name) >= 4
    /\ SubSeq(name, Len(name) - 3, Len(name)) = <<".", "p", "n", "g">>

\* (await fs.readdir(frameDir)).filter(...).sort(), before the paths are
\* joined to the directory
SortedFrames(listing) == Sort(SelectSeq(listing, EndsWithPng))

MaxFrameNumber == 10001   \* largest frame number of the listings

\* the frame numbers of the listings: the first ones and those around the
\* powers of ten
FrameNumbers ==
    {n \in 1..MaxFrameNumber :
        n <= 2 \/ \E k \in {10, 100, 1000, 10000} : n - k \in (0 - 1)..1}

\* a file of the directory that is not a frame
StrayFile == <<"l", "o", "g", ".", "t", "x", "t">>

InitFrames ==
    /\ Idle
    /\ pc = "generateFrames"
    /\ arg \in {a \in [i : FrameNumbers, j : FrameNumbers, stray : BOOLEAN] :
                   a.i # a.j}
    /\ ret = <<>>
    /\ ret2 = <<>>

\* the listing of the directory once the renderer has written its frames,
\* of which the model follows frames arg.i and arg.j
ListFrames ==
    /\ pc = "generateFrames"
    /\ ret' = SortedFrames(IF arg.stray
                           THEN <<FrameName(arg.i), StrayFile, FrameName(arg.j)>>
                           ELSE <<FrameName(arg.i), FrameName(arg.j)>>)
    /\ pc' = "listed"
    /\ UNCHANGED <<arg, ret2>>
    /\ UnchangedRun

NextFrames == ListFrames

SpecFrames == InitFrames /\ [][NextFrames]_vars

-----------------------------------------------------------------------------
(* The legacy command line's index file: parseTimestamp and the entries *)

MaxStampHours == 1     \* hours of an index-file timestamp

\* Number(s) for a string of decimal digits
ToNumber(s) == ParseDigits(s)

\* parseTimestamp: the last component is multiplied by 40
parseTimestamp(timestamp) ==
    LET parts == [k \in 1..4 |-> ToNumber(Split(timestamp, ":")[k])]
    IN  parts[1] * 3600000 + parts[2] * 60000 + parts[3] * 1000
        + parts[4] * 40

\* a timestamp of the index file, HH:MM:SS:mmm
IdxTimestamp(h, m, s, ms) ==
    PadStart(NumberToString(h), 2) \o <<":">> \o PadStart(NumberToString(m), 2)
    \o <<":">> \o PadStart(NumberToString(s), 2) \o <<":">>
    \o PadStart(NumberToString(ms), 3)

\* the timestamps the model draws from: the ends of each component's range
\* and the frame counts next to 1000 / 40
StampFields ==
    [h : 0..MaxStampHours, m : {0, 59}, s : {0, 1, 59}, ms : {0, 24, 25, 999}]

\* an index file with two subtitles; both frames are rendered and recognized
InitLegacy ==
    /\ Idle
    /\ pc = "parseIdx"
    /\ arg \in [first : StampFields, second : StampFields]
    /\ ret = <<>>
    /\ ret2 = <<>>

\* parseIdx: the `timestamp:` lines, in file order (this.subtitles)
LegacyParseIdx ==
    /\ pc = "parseIdx"
    /\ ret' = << [timestamp |-> parseTimestamp(
                     IdxTimestamp(arg.first.h, arg.first.m, arg.first.s,
                                  arg.first.ms))],
                 [timestamp |-> parseTimestamp(
                     IdxTimestamp(arg.second.h, arg.second.m, arg.second.s,
                                  arg.second.ms))] >>
    /\ pc' = "processSubtitlesWithOCR"
    /\ UNCHANGED <<arg, ret2>>
    /\ UnchangedRun

\* processSubtitlesWithOCR's loop, with a meaningful text for every frame
LegacyEntries(subtitles) ==
    [i \in 1..Len(subtitles) |->
        [index |-> i,
         startTime |-> subtitles[i].timestamp,
         endTime |-> IF i < Len(subtitles) THEN subtitles[i + 1].timestamp
                     ELSE subtitles[i].timestamp + 3000]]

LegacyProcessSubtitles ==
    /\ pc = "processSubtitlesWithOCR"
    /\ ret2' = LegacyEntries(ret)
    /\ pc' = "done"
    /\ UNCHANGED <<arg, ret>>
    /\ UnchangedRun

NextLegacy == LegacyParseIdx \/ LegacyProcessSubtitles

SpecLegacy == InitLegacy /\ [][NextLegacy]_vars

-----------------------------------------------------------------------------
(* spawnPromise, event by event: the callbacks of one child process *)

MaxData == 3       \* data events of one child process

\* the texts of the chunks (data.toString())
Chunks == {<<"a">>, <<"b">>}

\* the code of the close event: a number, or null after a signal
CloseCodes == {"0", "1", "null"}

NoOutput == [stdout |-> <<>>, stderr |-> <<>>]

Pending == [state |-> "pending", value |-> NoOutput, reason |-> "none"]

SettleAgain(promise, to) == to

\* resolve and reject of `new Promise`: a settled promise stays as it is
Settle(promise, to) ==
    IF promise.state = "pending" THEN to ELSE promise

\* new Error(`Process exited with code ${code}`)
ExitError(code) ==
    IF code = "null" THEN "Process exited with code null"
    ELSE "Process exited with code 1"

\* The promise is ret, the closure's `stdout` and `stderr` are ret2, and arg
\* is the log of the events the child has emitted, each with the promise as
\* its callback left it.
InitSpawn ==
    /\ Idle
    /\ pc = "spawned"
    /\ arg = <<>>
    /\ ret = Pending
    /\ ret2 = NoOutput

DataEvents == Len(SelectSeq(arg, LAMBDA e : e.event \in {"stdout", "stderr"}))

\* child.stdout.on("data", ...)
StdoutData ==
    /\ pc = "spawned"
    /\ DataEvents < MaxData
    /\ \E chunk \in Chunks :
          /\ ret2' = [ret2 EXCEPT !.stdout = @ \o chunk]
          /\ arg' = Append(arg, [event |-> "stdout", chunk |-> chunk,
                                 code |-> "none", promise |-> ret])
    /\ UNCHANGED <<pc, ret>>
    /\ UnchangedRun

\* child.stderr.on("data", ...)
StderrData ==
    /\ pc = "spawned"
    /\ DataEvents < MaxData
    /\ \E chunk \in Chunks :
          /\ ret2' = [ret2 EXCEPT !.stderr = @ \o chunk]
          /\ arg' = Append(arg, [event |-> "stderr", chunk |-> chunk,
                                 code |-> "none", promise |-> ret])
    /\ UNCHANGED <<pc, ret>>
    /\ UnchangedRun

\* child.on("error", reject): the child could not be spawned
ErrorEvent ==
    /\ pc = "spawned"
    /\ \A k \in 1..Len(arg) : arg[k].event # "error"
    /\ ret' = Settle(ret, [state |-> "rejected", value |-> NoOutput,
                           reason |-> "spawn error"])
    /\ arg' = Append(arg, [event |-> "error", chunk |-> <<>>,
                           code |-> "none", promise |-> ret'])
    /\ UNCHANGED <<pc, ret2>>
    /\ UnchangedRun

\* child.on("close", ...): the last event of a child
CloseEvent ==
    /\ pc = "spawned"
    /\ \E code \in CloseCodes :
          /\ ret' = IF code = "0"
                    THEN Settle(ret, [state |-> "resolved", value |-> ret2,
                                      reason |-> "none"])
                    ELSE Settle(ret, [state |-> "rejected", value |-> NoOutput,
                                      reason |-> ExitError(code)])
          /\ arg' = Append(arg, [event |-> "close", chunk |-> <<>>,
                                 code |-> code, promise |-> ret'])
    /\ pc' = "closed"
    /\ UNCHANGED ret2
    /\ UnchangedRun

NextSpawn == StdoutData \/ StderrData \/ ErrorEvent \/ CloseEvent

SpecSpawn == InitSpawn /\ [][NextSpawn]_vars

----------------------------------------------------------------------------
(* The decoder's stages with the external tools: parse and processFrames *)

\* a value interpolated into a template literal (`${width}`)
ToStr(v) ==
    IF v.type = "undefined"
    THEN <<"u", "n", "d", "e", "f", "i", "n", "e", "d">>
    ELSE NumberToString(v.value)

\* parseInt of a string of digits
parseInt(s) == ParseDigits(s)

\* The index file, as far as parse reads it: the digits of its
\* `size: WxH` declaration, or no such declaration.
NoSize == [declared |-> FALSE, w |-> <<>>, h |-> <<>>]

SizeLine(w, h) == [declared |-> TRUE, w |-> w, h |-> h]

IdxContents ==
    {NoSize,
     SizeLine(<<"7", "2", "0">>, <<"4", "8", "0">>),
     SizeLine(<<"1", "9", "2", "0">>, <<"1", "0", "8", "0">>),
     SizeLine(<<"0", "6", "4", "0">>, <<"3", "6", "0">>)}

\* parse: content.match(/size:\s*(\d+)x(\d+)/) and, on a match,
\* Object.assign(this.metadata, {width, height}); md is this.metadata before
MetadataOf(content, md) ==
    IF content.declared
    THEN [width |-> Num(parseInt(content.w)), height |-> Num(parseInt(content.h))]
    ELSE md

\* generateFrames: const { width, height } = this.metadata, then the
\* `${width}x${height}` of the canvas and the `${width}:${height}` of the
\* scale filter
FrameArgs(md) ==
    [size |-> ToStr(md.width) \o <<"x">> \o ToStr(md.height),
     scale |-> ToStr(md.width) \o <<":">> \o ToStr(md.height)]

\* how a renderer process can end
ToolEndings == {"exit 0", "exit 1", "spawn error"}

spawnPromiseAnyExit(ending) ==
    IF ending = "spawn error" THEN "rejected" ELSE "resolved"

\* spawnPromise: resolves on close with code 0, rejects on any other code
\* and on the error event
spawnPromise(ending) ==
    IF ending = "exit 0" THEN "resolved" ELSE "rejected"

\* promisify(execFile): rejects on a non-zero exit code and on a spawn error
execFileAsync(ending) ==
    IF ending = "exit 0" THEN "resolved" ELSE "rejected"

\* parseTimeline's loop over the lines of the probe's stderr, from position p
RECURSIVE ParseTimelineFrom(_, _, _)
ParseTimelineFrom(lines, p, st) ==
    IF p > Len(lines) THEN st
    ELSE ParseTimelineFrom(lines, p + 1, TimelineStep(st, lines[p]))

parseTimeline(lines) ==
    ParseTimelineFrom(lines, 1, [timeline |-> <<>>, textIndex |-> 0])

MaxProbe == 2      \* probe lines of a run of the decoder's stages

\* the probe logs of the runs of the stages
ProbeLogs == UNION {[1..n -> SlotLines] : n \in 0..MaxProbe}

InitDecoder ==
    /\ Idle
    /\ pc = "constructed"
    /\ arg = [idx |-> NoSize]
    /\ ret = <<>>
    /\ ret2 = <<>>

\* parse(): the index file is read, this.metadata takes the declared size,
\* then parseTimeline runs the probe; a probe that fails rejects parse and
\* this.timeline keeps its initial value
Parse ==
    /\ pc = "constructed"
    /\ \E content \in IdxContents, ending \in ToolEndings, lines \in ProbeLogs :
          /\ arg' = [idx |-> content]
          /\ metadata' = MetadataOf(content, metadata)
          /\ tools' = [tools EXCEPT !.probe = ending]
          /\ IF spawnPromise(ending) = "resolved"
             THEN /\ showInfo' = lines
                  /\ timeline' = parseTimeline(lines).timeline
                  /\ textIndex' = parseTimeline(lines).textIndex
                  /\ pc' = "parsed"
             ELSE /\ UNCHANGED <<showInfo, timeline, textIndex>>
                  /\ pc' = "parse rejected"
    /\ UNCHANGED <<ocrResults, srtEntries, srtContent, ret, ret2, ffmpegArgs,
                   frames, tempDir, exitCode, outputFile>>

\* the sorted listing of n files named by subtitle_frame_%04d.png
FrameFiles(n) == SortedFrames([i \in 1..n |-> FrameName(i)])

\* whether normalizing one of the texts ends in the RangeError
NormalizeThrows(results) ==
    \E i \in 1..Len(results) :
        wrapSubtitleText(Trim(cleanOcrText(results[i])), DefaultMaxLength)
            = RangeError

\* processFrames({ tempDir }) after parse: generateFrames builds the
\* renderer's arguments and runs it (a failure rejects the stage), no frame
\* file is an error, then the recognizer is called once for all frames (a
\* failure is caught and thrown again) and its texts are merged with
\* this.timeline
ProcessFramesCall ==
    /\ pc = "parsed"
    /\ ffmpegArgs' = FrameArgs(metadata)
    /\ \E ending \in ToolEndings, n \in 0..MaxFrames :
          IF execFileAsync(ending) = "rejected"
          THEN /\ tools' = [tools EXCEPT !.render = ending]
               /\ pc' = "processFrames rejected"
               /\ UNCHANGED <<frames, ocrResults, srtEntries>>
          ELSE /\ frames' = FrameFiles(n)
               /\ IF n = 0
                  THEN /\ tools' = [tools EXCEPT !.render = ending]
                       /\ pc' = "processFrames rejected"
                       /\ UNCHANGED <<ocrResults, srtEntries>>
                  ELSE \/ /\ tools' = [tools EXCEPT !.render = ending,
                                                    !.ocr = "rejected"]
                          /\ pc' = "processFrames rejected"
                          /\ UNCHANGED <<ocrResults, srtEntries>>
                       \/ \E results \in [1..n -> RawTexts] :
                             /\ tools' = [tools EXCEPT !.render = ending,
                                                       !.ocr = "resolved"]
                             /\ ocrResults' = results
                             /\ srtEntries' =
                                   IF NormalizeThrows(results) THEN <<>>
                                   ELSE processFrames(timeline, results)
                             /\ pc' = IF NormalizeThrows(results)
                                      THEN "processFrames rejected"
                                      ELSE "processed"
    /\ UNCHANGED <<showInfo, timeline, textIndex, srtContent, arg, ret, ret2,
                   metadata, tempDir, exitCode, outputFile>>

NextDecoder == Parse \/ ProcessFramesCall \/ Generate

SpecDecoder == InitDecoder /\ [][NextDecoder]_vars

----------------------------------------------------------------------------
(* The command line: main of index.js and main of the library's CLI *)

\* the two programs with a main
Clis == {"index.js", "lib/cli.js"}

\* The command line as parseCliArgs reads it: whether parseArgs accepts it
\* and, when it does, the flags (input and output: whether they are given).
UnparsableArgs ==
    [parses |-> FALSE, help |-> FALSE, input |-> FALSE, output |-> FALSE,
     quality |-> "fast", platform |-> "darwin"]

CommandLines ==
    {UnparsableArgs} \cup
    [parses : {TRUE}, help : BOOLEAN, input : BOOLEAN, output : BOOLEAN,
     quality : {"fast", "accurate", "best"}, platform : {"darwin", "linux"}]

\* What the run meets: whether the temporary directory can be made, whether
\* the two files are accessible, and how each stage of the decoder ends once
\* it is called (it throws, it returns nothing, it returns something).
StageEndings == {"throws", "none", "some"}

\* A stage cannot read a file that is not there: parseIdx reads the index
\* file, and the renderer is given the index file and reads the payload.
Environments ==
    {e \in [mkdtemp : {"ok", "throws"}, idx : {"accessible", "missing"},
            sub : {"accessible", "missing"}, parseIdx : StageEndings,
            extract : StageEndings, ocr : StageEndings] :
        /\ e.idx = "missing" => (e.parseIdx = "throws" /\ e.extract = "throws")
        /\ e.sub = "missing" => e.extract = "throws"}

\* the methods the decoder class of each program defines
DecoderMethods(cli) ==
    IF cli = "index.js"
    THEN {"parseIdx", "parseTimestamp", "formatSrtTimestamp", "cleanOcrText",
          "wrapSubtitleText", "extractSubtitleFrames",
          "processSubtitlesWithOCR", "generateSRT"}
    ELSE {"parse", "formatSrtTimestamp", "cleanOcrText", "wrapSubtitleText",
          "parseTimeline", "generateFrames", "processFrames", "generate"}

\* the methods main calls on its decoder, stage by stage
MainCalls(cli) ==
    IF cli = "index.js"
    THEN [parseIdx |-> "parseIdx", extract |-> "extractSubtitleFrames",
          ocr |-> "processSubtitlesWithOCR", generate |-> "generateSRT"]
    ELSE [parseIdx |-> "parseIdx", extract |-> "extractFrames",
          ocr |-> "processFrames", generate |-> "generate"]

\* how the call of a stage ends: calling a method the class does not define
\* throws a TypeError
CallEnding(cli, stage, ending) ==
    IF MainCalls(cli)[stage] \in DecoderMethods(cli) THEN ending ELSE "throws"

\* the quality check of the library's CLI; index.js has no such option
QualityRejected(cli, quality) ==
    cli = "lib/cli.js" /\ quality \notin {"fast", "accurate"}

\* the values of --input
InputPaths ==
    {<<"m", ".", "i", "d", "x">>, <<"m", ".", "I", "D", "X">>,
     <<"m", ".", "t", "x", "t">>, <<"m">>}

\* the letters of the extension, in lower case
LowerCase(c) ==
    IF c = "I" THEN "i" ELSE IF c = "D" THEN "d" ELSE IF c = "X" THEN "x" ELSE c

\* whether /\.idx$/i matches the path
EndsWithIdx(path) ==
    /\ Len(path) >= 4
    /\ [k \in 1..4 |-> LowerCase(path[Len(path) - 4 + k])]
          = <<".", "i", "d", "x">>

\* idxPath.replace(/\.idx$/i, ".sub")
SubPathOf(idxPath) ==
    IF EndsWithIdx(idxPath)
    THEN SubSeq(idxPath, 1, Len(idxPath) - 4) \o <<".", "s", "u", "b">>
    ELSE idxPath

\* the position of the last "." of a path, 0 when it has none
LastDot(path) ==
    IF \E k \in 1..Len(path) : path[k] = "."
    THEN CHOOSE k \in 1..Len(path) :
             path[k] = "." /\ \A q \in (k + 1)..Len(path) : path[q] # "."
    ELSE 0

\* the payload file that belongs to an index file: same directory, same base
\* name, extension .sub
CompanionOf(path) ==
    (IF LastDot(path) = 0 THEN path ELSE SubSeq(path, 1, LastDot(path) - 1))
    \o <<".", "s", "u", "b">>

\* the files fs.access finds, in an environment, for the input path
AccessibleFiles(env, path) ==
    (IF env.idx = "accessible" THEN {path} ELSE {})
    \cup (IF env.sub = "accessible" THEN {CompanionOf(path)} ELSE {})

InitCli ==
    /\ Idle
    /\ pc = "main"
    /\ arg \in [cli : Clis, argv : CommandLines, env : Environments,
                path : InputPaths]
    /\ ret = <<>>
    /\ ret2 = <<>>

UnchangedDecoder ==
    UNCHANGED <<showInfo, timeline, textIndex, ocrResults, srtEntries,
                srtContent, arg, ret, ret2, metadata, ffmpegArgs, frames,
                tools>>

\* process.exit(code): the process ends there, nothing else runs
ProcessExit(code) ==
    /\ exitCode' = code
    /\ pc' = "exited"
    /\ UNCHANGED <<tempDir, outputFile>>

IsEmptyNever(ending) == FALSE

\* `if (x.length === 0) { ...; process.exit(1); }`
IsEmpty(ending) == ending = "none"

\* main up to its try block: parseCliArgs, the help flag, the platform
\* gate and the checks of the arguments
MainValidate ==
    /\ pc = "main"
    /\ LET argv == arg.argv
       IN  IF ~argv.parses THEN ProcessExit("1")
           ELSE IF argv.help THEN ProcessExit("0")
           ELSE IF argv.platform # "darwin" THEN ProcessExit("1")
           ELSE IF ~argv.input \/ ~argv.output THEN ProcessExit("1")
           ELSE IF QualityRejected(arg.cli, argv.quality) THEN ProcessExit("1")
           ELSE /\ pc' = "try"
                /\ UNCHANGED <<tempDir, exitCode, outputFile>>
    /\ UnchangedDecoder

\* tempDir = await fs.mkdtemp(...); a rejection goes to the catch block,
\* which exits
Mkdtemp ==
    /\ pc = "try"
    /\ IF arg.env.mkdtemp = "throws" THEN ProcessExit("1")
       ELSE /\ tempDir' = "exists"
            /\ pc' = "access"
            /\ UNCHANGED <<exitCode, outputFile>>
    /\ UnchangedDecoder

\* fs.access of the index file, then of the .sub file beside it
AccessFiles ==
    /\ pc = "access"
    /\ IF \/ arg.path \notin AccessibleFiles(arg.env, arg.path)
          \/ SubPathOf(arg.path) \notin AccessibleFiles(arg.env, arg.path)
       THEN ProcessExit("1")
       ELSE /\ pc' = "parseIdx"
            /\ UNCHANGED <<tempDir, exitCode, outputFile>>
    /\ UnchangedDecoder

\* `await decoder.<method>(...)` and the length check after it: an exception
\* goes to the catch block, which exits, and an empty result exits too
StageStep(stage, next) ==
    /\ pc = stage
    /\ LET ending == CallEnding(arg.cli, stage, arg.env[stage])
       IN  IF ending = "throws" \/ IsEmpty(ending) THEN ProcessExit("1")
           ELSE /\ pc' = next
                /\ UNCHANGED <<tempDir, exitCode, outputFile>>
    /\ UnchangedDecoder

ParseIdx == StageStep("parseIdx", "extract")

ExtractFrames == StageStep("extract", "ocr")

ProcessOcr == StageStep("ocr", "generate")

\* await decoder.generateSRT(srtEntries, outputPath): the one write of the
\* output file
GenerateSrt ==
    /\ pc = "generate"
    /\ IF CallEnding(arg.cli, "generate", "some") = "throws"
       THEN ProcessExit("1")
       ELSE /\ outputFile' = "written"
            /\ pc' = "finally"
            /\ UNCHANGED <<tempDir, exitCode>>
    /\ UnchangedDecoder

\* the finally block when the try block ran to its end: the temporary
\* directory is removed, main returns and the process ends with code 0
Finally ==
    /\ pc = "finally"
    /\ tempDir' = IF tempDir = "exists" THEN "removed" ELSE tempDir
    /\ exitCode' = "0"
    /\ pc' = "returned"
    /\ UNCHANGED outputFile
    /\ UnchangedDecoder

NextCli ==
    \/ MainValidate
    \/ Mkdtemp
    \/ AccessFiles
    \/ ParseIdx
    \/ ExtractFrames
    \/ ProcessOcr
    \/ GenerateSrt
    \/ Finally

SpecCli == InitCli /\ [][NextCli]_vars

----------------------------------------------------------------------------
(* Claims about processFrames and generate, under SpecOcr *)

\* the text the normalizer makes of a raw recognition result
Normalized(raw) == wrapSubtitleText(Trim(cleanOcrText(raw)), DefaultMaxLength)

SrtEntrySet == {srtEntries[j] : j \in 1..Len(srtEntries)}

\* C1: every SRT entry that carries timeline entry k (its index, startTime
\* and endTime) carries the normalized text of recognition result k.
C1_PositionalAlignment ==
    pc \in {"processed", "generated"} =>
        \A e \in SrtEntrySet : \A k \in 1..Len(timeline) :
            (/\ e.index = timeline[k].index
             /\ e.startTime = timeline[k].startTime
             /\ e.endTime = timeline[k].endTime)
            => /\ k <= Len(ocrResults)
               /\ e.text = Normalized(ocrResults[k])

\* the index lines of an SRT document: its first line and every line that
\* follows a blank line
RECURSIVE IndexLinesFrom(_, _)
IndexLinesFrom(lines, p) ==
    IF p > Len(lines) THEN <<>>
    ELSE (IF p = 1 \/ lines[p - 1] = <<>> THEN <<lines[p]>> ELSE <<>>)
         \o IndexLinesFrom(lines, p + 1)

IndexLines(doc) == IndexLinesFrom(Split(doc, "\n"), 1)

\* C3: the index lines of the document generate writes are 1, 2, ..., N
\* for the N entries the OCR stage returned.
C3_RenumberedFromOne ==
    pc = "generated" =>
        IndexLines(srtContent) =
            [i \in 1..Len(srtEntries) |-> NumberToString(i)]

\* C4: a recognition result whose cleaned, trimmed text has fewer than 2
\* characters produces no SRT entry for its slot.
C4_TooShortExcluded ==
    pc \in {"processed", "generated"} =>
        \A k \in 1..Len(ocrResults) :
            Len(Trim(cleanOcrText(ocrResults[k]))) < 2 =>
                \A e \in SrtEntrySet :
                    ~(k <= Len(timeline) /\ e.index = timeline[k].index)

\* the lines an SRT document has for its entries from position i on: per
\* entry its index, its two timestamps around the arrow, its text lines and
\* one empty line
RECURSIVE RecordLinesFrom(_, _)
RecordLinesFrom(entries, i) ==
    IF i > Len(entries) THEN <<>>
    ELSE <<NumberToString(entries[i].index),
           formatSrtTimestamp(entries[i].startTime)
               \o <<" ", "-", "-", ">", " ">>
               \o formatSrtTimestamp(entries[i].endTime)>>
         \o LinesOf(entries[i].text)
         \o << <<>> >>
         \o RecordLinesFrom(entries, i + 1)

\* C18: for a non-empty list of entries whose texts are non-empty and have at
\* most 2 lines, generate writes, in one write and in list order, per entry
\* its index line, its `HH:MM:SS,mmm --> HH:MM:SS,mmm` line and its text
\* lines, with exactly one blank line after each record (so one between
\* consecutive records); nothing is written before that.  (SpecOcr)
C18_SrtLayout ==
    /\ pc # "generated" => srtContent = <<>>
    /\ pc = "generated" =>
          /\ Len(srtEntries) > 0
          /\ \A i \in 1..Len(srtEntries) :
                Len(LinesOf(srtEntries[i].text)) \in 1..2
          /\ LinesOf(srtContent) = RecordLinesFrom(srtEntries, 1)

\* C18 witness: a document of two records was written, one of them with a
\* text of two lines.
C18_Witness ==
    /\ pc = "generated"
    /\ Len(srtEntries) = 2
    /\ \E i \in 1..2 : HasNewline(srtEntries[i].text)
    /\ Len(LinesOf(srtContent)) = 9

----------------------------------------------------------------------------
(* Claims about the decoder's stages, under SpecDecoder *)

\* the size the renderer is to be given for an index file: the declared
\* one, 720x480 when none is declared
SizeWithFallback(content) ==
    IF content.declared
    THEN <<parseInt(content.w), parseInt(content.h)>>
    ELSE <<720, 480>>

\* C12: an index file with no `size: WxH` declaration does not make parse
\* fail, and the frame renderer's canvas and scale arguments are built with
\* the declared width and height when the file declares them and with 720
\* and 480 when it does not.
C12_FallbackSize ==
    /\ (pc = "parse rejected") => tools.probe # "exit 0"
    /\ tools.render # "not run" =>
          LET size == SizeWithFallback(arg.idx)
          IN  /\ ffmpegArgs.size = NumberToString(size[1]) \o <<"x">>
                                       \o NumberToString(size[2])
              /\ ffmpegArgs.scale = NumberToString(size[1]) \o <<":">>
                                        \o NumberToString(size[2])

RendererFailed(ending) == ending \in {"exit 1", "spawn error"}

\* C16: when the probe exits with a non-zero code or cannot be spawned,
\* parse rejects and leaves no timeline; when the frame rendering does,
\* processFrames rejects and returns no frame list and no entries; in both
\* cases no later stage runs: the recognizer is not called and nothing is
\* generated.
C16_RendererFailureFatal ==
    /\ RendererFailed(tools.probe) =>
          /\ pc = "parse rejected"
          /\ timeline = <<>>
          /\ tools.render = "not run"
          /\ ffmpegArgs = NoFfmpegArgs
    /\ RendererFailed(tools.render) =>
          /\ pc = "processFrames rejected"
          /\ frames = <<>>
    /\ (RendererFailed(tools.probe) \/ RendererFailed(tools.render)) =>
          /\ tools.ocr = "not run"
          /\ ocrResults = <<>>
          /\ srtEntries = <<>>
          /\ srtContent = <<>>

\* C16 witness: the probe gave a timeline of two entries, then the frame
\* rendering could not be spawned and processFrames rejected.
C16_Witness ==
    /\ tools.probe = "exit 0"
    /\ Len(timeline) = 2
    /\ tools.render = "spawn error"
    /\ pc = "processFrames rejected"

\* C17: when the recognizer call fails, processFrames rejects and returns no
\* entries; when it succeeds, processFrames returns, and timeline slot k has
\* an entry exactly when recognition result k exists and its cleaned,
\* trimmed text has at least 2 characters: a missing, empty or too-short
\* result drops its own slot and no other.
C17_EmptyResultDropsItsSlot ==
    /\ tools.ocr = "rejected" =>
          (pc = "processFrames rejected" /\ srtEntries = <<>>)
    /\ tools.ocr = "resolved" =>
          /\ pc \in {"processed", "generated"}
          /\ \A k \in 1..Len(timeline) :
                (\E e \in SrtEntrySet : e.index = timeline[k].index)
                <=> (/\ k <= Len(ocrResults)
                     /\ Len(Trim(cleanOcrText(ocrResults[k]))) >= 2)

----------------------------------------------------------------------------
(* Claims about the command line, under SpecCli *)

Exited == exitCode # "running"

\* C13: on every exit path (success, handled failure, caught exception) the
\* temporary directory has been removed before the process exits.
C13_TempDirReleased == Exited => tempDir # "exists"

\* the help flag was read
HelpRequested == arg.argv.parses /\ arg.argv.help

\* valid arguments, accessible files, successful tools, at least one entry
ValidRun ==
    /\ arg.argv.parses /\ ~arg.argv.help
    /\ arg.argv.platform = "darwin"
    /\ arg.argv.input /\ arg.argv.output
    /\ arg.argv.quality \in {"fast", "accurate"}
    /\ arg.env = [mkdtemp |-> "ok", idx |-> "accessible", sub |-> "accessible",
                  parseIdx |-> "some", extract |-> "some", ocr |-> "some"]

\* C14: the exit code is 0 exactly when help was requested or the conversion
\* completed and the output was written, and 1 otherwise; a run with valid
\* arguments, accessible files, successful tools and at least one surviving
\* entry ends with 0.
C14_ExitCodeMapping ==
    Exited =>
        /\ exitCode \in {"0", "1"}
        /\ (exitCode = "0") <=> (HelpRequested \/ outputFile = "written")
        /\ ValidRun => exitCode = "0"

\* C15: the output file is written only after every stage has succeeded and
\* at least one entry survives; a run that fails anywhere leaves no output
\* file.
C15_NoPartialOutput ==
    /\ outputFile = "written" =>
          /\ pc \in {"finally", "returned"}
          /\ tempDir # "undefined"
          /\ arg.env.idx = "accessible" /\ arg.env.sub = "accessible"
          /\ arg.env.parseIdx = "some"
          /\ arg.env.extract = "some"
          /\ arg.env.ocr = "some"
    /\ exitCode = "1" => outputFile = "absent"

\* C15 witness: a run wrote its output file and ended with code 0.
C15_Witness ==
    /\ outputFile = "written"
    /\ exitCode = "0"

----------------------------------------------------------------------------
(* More claims about cleanOcrText, under SpecClean *)

\* the keys of the replacements table
TableKeys == {replacements[i][1] : i \in 1..Len(replacements)}

\* no replacement value holds a character that is a key
TableClosed ==
    \A i \in 1..Len(replacements) :
        \A p \in 1..Len(replacements[i][2]) :
            replacements[i][2][p] \notin TableKeys

\* the table rows order[1..n] applied to s in that order
RECURSIVE ApplyRowsInOrder(_, _, _)
ApplyRowsInOrder(s, order, n) ==
    IF n = 0 THEN s
    ELSE LET row == replacements[order[n]]
             before == ApplyRowsInOrder(s, order, n - 1)
         IN  IF before = <<>> THEN <<>>
             ELSE ReplaceAll(before, row[1], row[2])

\* the rows of the table from the last to the first
LastRowFirst ==
    [i \in 1..Len(replacements) |-> Len(replacements) - i + 1]

\* C21: no replacement value of the table contains a character that is a
\* key of the table, so applying the rows in another order (here: from the
\* last row to the first) gives the same text as applying them in the
\* table's order.
C21_TableClosed ==
    (pc = "cleaned" /\ ~Falsy(arg.text)) =>
        /\ TableClosed
        /\ ApplyRowsInOrder(arg.text, LastRowFirst, Len(replacements))
              = ApplyReplacements(arg.text, Len(replacements))

\* whether the string sub occurs in s
Contains(s, sub) ==
    \E p \in 1..(Len(s) - Len(sub) + 1) :
        SubSeq(s, p, p + Len(sub) - 1) = sub

\* the symbols of C22 and the text each is to become
SymbolTexts ==
    {<<"U+00BC", <<"1", "/", "4">>>>,
     <<"U+00BD", <<"1", "/", "2">>>>,
     <<"U+00BE", <<"3", "/", "4">>>>,
     <<"U+00B1", <<"+">>>>}

\* C22: when the input holds a fraction glyph (one quarter, one half, three
\* quarters) the text cleanOcrText returns holds 1/4, 1/2 or 3/4, and when
\* it holds the plus-minus sign the returned text holds +.
C22_SymbolsReachText ==
    (pc = "cleaned" /\ ~Falsy(arg.text)) =>
        \A st \in SymbolTexts :
            (\E i \in 1..Len(arg.text) : arg.text[i] = st[1])
                => Contains(ret, st[2])

\* the punctuation C23 allows
AllowedPunctuation == {".", ",", "!", "?", ";", ":", "(", ")", "-", "\"", "'"}

\* C23: for a non-empty input the text cleanOcrText returns holds only ASCII
\* word characters, spaces and the punctuation . , ! ? ; : ( ) - " ', does
\* not start or end with whitespace and has no two whitespace characters in
\* a row; a null or empty input is returned unchanged.
C23_AllowedAlphabet ==
    pc = "cleaned" =>
        IF Falsy(arg.text) THEN ret = arg.text
        ELSE /\ \A i \in 1..Len(ret) :
                    ret[i] \in WordChars \cup {" "} \cup AllowedPunctuation
             /\ ret # <<>> => (ret[1] # " " /\ ret[Len(ret)] # " ")
             /\ \A i \in 1..(Len(ret) - 1) :
                    ~(ret[i] = " " /\ ret[i + 1] = " ")

\* C23 witness: a text with a stray symbol and a space followed by a line
\* break inside has been cleaned to a non-empty text.
C23_Witness ==
    /\ pc = "cleaned"
    /\ arg.text # Null
    /\ \E i \in 1..Len(arg.text) : arg.text[i] = "#"
    /\ \E i \in 1..(Len(arg.text) - 1) :
          arg.text[i] = " " /\ arg.text[i + 1] = "\n"
             /\ i > 1 /\ i + 1 < Len(arg.text)
    /\ ret # <<>>

----------------------------------------------------------------------------
(* More claims about wrapSubtitleText, under SpecWrap *)

\* a text with no line break, no space at its ends and no two spaces in a row
SingleSpaced(s) ==
    /\ ~HasNewline(s)
    /\ s # <<>> => (s[1] # " " /\ s[Len(s)] # " ")
    /\ \A i \in 1..(Len(s) - 1) : ~(s[i] = " " /\ s[i + 1] = " ")

\* no word of the text is longer than maxLength
WordsFit(s, maxLength) ==
    \A i \in 1..Len(Split(s, " ")) : Len(Split(s, " ")[i]) <= maxLength

\* C28: for a single-spaced, trimmed text longer than maxLength in which no
\* word is longer than maxLength and whose packing needs at most 2 lines,
\* the result of wrapSubtitleText with its line break replaced by a space is
\* the text itself.  (SpecWrap)
C28_WrapLosesNothing ==
    (/\ pc = "wrapped"
     /\ SingleSpaced(arg.text)
     /\ Len(arg.text) > arg.maxLength
     /\ WordsFit(arg.text, arg.maxLength)
     /\ Len(WrapLines(arg.text, arg.maxLength)) <= 2)
    => ReplaceAll(ret, "\n", <<" ">>) = arg.text

\* C28 witness: a text of two words of three and two letters was wrapped at
\* width 3 into two lines.
C28_Witness ==
    /\ pc = "wrapped"
    /\ arg.maxLength = 3
    /\ arg.text = <<"a", "a", "a", " ", "a", "a">>
    /\ ret = <<"a", "a", "a", "\n", "a", "a">>

----------------------------------------------------------------------------
(* Claims about the frame files, under SpecFrames *)

\* C24: for frame numbers i < j the name of frame i comes before the name
\* of frame j in the sorted listing, for any number of frames (more than
\* 9999 included), and only frame files are listed.
C24_NamesSortInFrameOrder ==
    pc = "listed" =>
        LET lo == IF arg.i < arg.j THEN arg.i ELSE arg.j
            hi == IF arg.i < arg.j THEN arg.j ELSE arg.i
        IN  ret = <<FrameName(lo), FrameName(hi)>>

----------------------------------------------------------------------------
(* More claims about the command line, under SpecCli *)

\* main has gone past its checks of the two files
PastFileChecks ==
    pc \in {"parseIdx", "extract", "ocr", "generate", "finally", "returned"}

\* C26: for every input path, one that does not end in .idx included, main
\* goes past its file checks only when the index file and its companion (a
\* different file with the same base name and the extension .sub) are both
\* accessible; otherwise the run has exited with code 1 by then.
C26_CompanionChecked ==
    PastFileChecks =>
        /\ CompanionOf(arg.path) # arg.path
        /\ arg.path \in AccessibleFiles(arg.env, arg.path)
        /\ CompanionOf(arg.path) \in AccessibleFiles(arg.env, arg.path)

-----------------------------------------------------------------------------
(* Claims about spawnPromise's callbacks, under SpecSpawn *)

RECURSIVE ChunksOf(_, _, _)
\* the chunks the first n events delivered on a stream, joined in arrival order
ChunksOf(log, stream, n) ==
    IF n = 0 THEN <<>>
    ELSE ChunksOf(log, stream, n - 1)
         \o (IF log[n].event = stream THEN log[n].chunk ELSE <<>>)

ErrorSeen == \E k \in 1..Len(arg) : arg[k].event = "error"

ClosedWith(codes) ==
    /\ arg # <<>>
    /\ arg[Len(arg)].event = "close"
    /\ arg[Len(arg)].code \in codes

\* C25: under every interleaving of the child's data, error and close events
\* the promise of spawnPromise settles at most once (once an event has left it
\* settled, every later event leaves it as it was, so a rejected call never
\* yields a result later); it is resolved only after a close with code 0, and
\* then with the chunks of each stream joined in arrival order; it is rejected
\* once the child has emitted a spawn error or closed with another code, null
\* included.
C25_AllOrNothing ==
    /\ \A k \in 1..Len(arg) : \A l \in k..Len(arg) :
          arg[k].promise.state # "pending" => arg[l].promise = arg[k].promise
    /\ arg # <<>> => ret = arg[Len(arg)].promise
    /\ ret.state = "resolved" =>
          /\ ClosedWith({"0"})
          /\ ret.value.stdout = ChunksOf(arg, "stdout", Len(arg))
          /\ ret.value.stderr = ChunksOf(arg, "stderr", Len(arg))
    /\ (ErrorSeen \/ ClosedWith(CloseCodes \ {"0"})) => ret.state = "rejected"
    /\ (ClosedWith({"0"}) /\ ~ErrorSeen) => ret.state = "resolved"

\* a child that wrote to both streams, failed with a spawn error and then
\* closed with code 0: the call stays rejected
C25_Witness ==
    /\ ClosedWith({"0"})
    /\ ErrorSeen
    /\ ret2.stdout # <<>>
    /\ ret2.stderr # <<>>
    /\ ret.state = "rejected"

-----------------------------------------------------------------------------
(* Claims about the legacy timestamps, under SpecLegacy *)

\* the time the timestamp HH:MM:SS:mmm stands for, in milliseconds
MillisOf(f) == f.h * 3600000 + f.m * 60000 + f.s * 1000 + f.ms

\* C27: for two index-file timestamps HH:MM:SS:mmm (mmm in 0..999) of which
\* the first is earlier, parseTimestamp gives the first the strictly smaller
\* value, and every entry processSubtitlesWithOCR builds from timestamps
\* listed in increasing order ends after it starts.
C27_OrderPreserved ==
    (pc \in {"processSubtitlesWithOCR", "done"}
       /\ MillisOf(arg.first) < MillisOf(arg.second)) =>
        /\ ret[1].timestamp < ret[2].timestamp
        /\ pc = "done" =>
              \A i \in 1..Len(ret2) : ret2[i].endTime > ret2[i].startTime

=============================================================================
